---- MODULE Spec2Model ----
(***************************************************************************)
(* Exam seating allocation of proj1.py: compute_max_capacity and the       *)
(* allocation pass of main() (lines 58-153), as a state machine.           *)
(*                                                                         *)
(* Strings that the program builds with "; ".join or reads with            *)
(* split("; ") are modelled as sequences of tokens in which the separator  *)
(* is the token SEP.                                                       *)
(***************************************************************************)
EXTENDS Integers, Sequences, FiniteSets, TLC

\* ---------------------------------------------------------------- bounds
MaxEnroll == 2      \* most students of one course in the enrollment sheet
MaxCap == 2         \* largest raw 'Exam Capacity' of a room
MaxSize == 9        \* largest room_size handed to compute_max_capacity alone

Margins == 0..1                      \* seat_margin typed by the user
CapMargins == (0 - 3)..5             \* margins for compute_max_capacity alone
Modes == {"dense", "sparse"}
TypedModes == {"dense", "sparse", "compact"}   \* what the user may type
RollTable == [X |-> <<"x1", "x2", "x3", "x4">>, Y |-> <<"y1", "y2", "y3", "y4">>]
Sessions == <<"Morning", "Evening">> \* line 95
RoomNos == {1, 2}                    \* 'Room No.' values of the catalog
Blocks == {"9", "LT"}                \* 'Block' values of the catalog
SEP == "; "
None == "None"                       \* Python's None
NaN == [isna |-> TRUE, text |-> <<>>]   \* a blank schedule cell

VARIABLES
    arrangement_mode,    \* line 65-68
    seat_margin,         \* line 64
    student_records,     \* sheet ip_1: rows (course_code, rollno)
    schedule_details,    \* sheet ip_2: rows (Date, Morning, Evening)
    room_details,        \* sheet ip_3: rows (Block, Room No., Exam Capacity)
    course_enrollment,   \* line 80-81: course_code -> student_count
    course_to_students,  \* line 82: course_code -> remaining roster
    block_9_rooms,       \* line 86
    lt_block_rooms,      \* line 87
    seating_plan,        \* line 90
    row,                 \* index of session_info in schedule_details (line 93)
    sess,                \* index of session in Sessions (line 95)
    pc,                  \* position in main()
    sorted_courses,      \* line 105
    allocation_plan,     \* line 107
    ci,                  \* index into sorted_courses (line 108)
    assigned_rooms,      \* line 109
    remaining_students,  \* line 110
    ri,                  \* index of room_info in the pool being iterated
    ai,                  \* index into allocation_plan (line 135)
    room_size,           \* argument of the last compute_max_capacity call
    max_capacity,        \* its return value (line 117 / 127)
    call                 \* "none" | "pending" | "returned" | "raised"

inputs == <<arrangement_mode, seat_margin, student_records, schedule_details,
            room_details, course_enrollment, block_9_rooms, lt_block_rooms>>
locals == <<sorted_courses, allocation_plan, ci, assigned_rooms,
            remaining_students, ri, ai>>
capcall == <<room_size, max_capacity, call>>
vars == <<inputs, course_to_students, seating_plan, row, sess, pc, locals, capcall>>

\* ---------------------------------------------------------------- helpers
Max(a, b) == IF a >= b THEN a ELSE b
Min(a, b) == IF a <= b THEN a ELSE b

RECURSIVE SumSeq(_)
SumSeq(s) == IF s = <<>> THEN 0 ELSE Head(s) + SumSeq(Tail(s))

RECURSIVE Flatten(_)
Flatten(ss) == IF ss = <<>> THEN <<>> ELSE Head(ss) \o Flatten(Tail(ss))

Range(s) == {s[i] : i \in 1..Len(s)}

\* lines 7-14: no statement of the function raises
CallOutcome(size, mode, margin) == "returned"

\* compute_max_capacity with the sparse floor of 1 lost (floor 0, as in dense)
compute_max_capacity_nofloor(size, mode, margin) ==
    IF mode = "dense" THEN Max(0, size - margin)
    ELSE IF mode = "sparse" THEN Max(0, (size \div 2) - margin)
    ELSE None

\* lines 7-14: falls off the end (returns None) for any other mode
compute_max_capacity(size, mode, margin) ==
    IF mode = "dense" THEN Max(0, size - margin)
    ELSE IF mode = "sparse" THEN Max(1, (size \div 2) - margin)
    ELSE None

\* lines 66-68: anything but 'dense'/'sparse' defaults to 'dense'
DefaultMode(typed) == IF typed \notin {"dense", "sparse"} THEN "dense" ELSE typed

\* "; ".join(list) (line 144)
RECURSIVE Join(_)
Join(list) ==
    IF list = <<>> THEN <<>>
    ELSE IF Len(list) = 1 THEN <<list[1]>>
    ELSE <<list[1], SEP>> \o Join(Tail(list))

\* text.split('; ') (line 99); the empty string splits into ['']
Split(text) == IF text = <<>> THEN <<"">> ELSE SelectSeq(text, LAMBDA t : t # SEP)

\* groupby('course_code')['rollno'].apply(list).to_dict() (line 82)
RollsOf(records, c) ==
    LET rows == SelectSeq(records, LAMBDA r : r.course_code = c)
    IN  [i \in 1..Len(rows) |-> rows[i].rollno]

GroupedCourses(records) == {records[i].course_code : i \in 1..Len(records)}

GroupRolls(records) == [c \in GroupedCourses(records) |-> RollsOf(records, c)]

\* groupby('course_code')['rollno'].count() (lines 80-81)
GroupCount(records) == [c \in GroupedCourses(records) |-> Len(RollsOf(records, c))]

\* room_details[room_details['Block'] == b] (lines 86, 87)
InBlock(rooms, b) == SelectSeq(rooms, LAMBDA r : r.Block = b)

\* the primary pool left in catalog order
SortByRoomNo_unsorted(rooms) == rooms

\* sort_values(by=["Room No."]) (line 86)
RECURSIVE SortByRoomNo(_)
SortByRoomNo(rooms) ==
    IF rooms = <<>> THEN <<>>
    ELSE LET n == Len(rooms)
             r == rooms[n]
             s == SortByRoomNo(SubSeq(rooms, 1, n - 1))
             p == Cardinality({i \in 1..Len(s) : s[i].RoomNo <= r.RoomNo})
         IN  SubSeq(s, 1, p) \o <<r>> \o SubSeq(s, p + 1, Len(s))

\* sort_values(by='Exam Capacity', ascending=False) (line 87)
RECURSIVE SortByCapacityDesc(_)
SortByCapacityDesc(rooms) ==
    IF rooms = <<>> THEN <<>>
    ELSE LET n == Len(rooms)
             r == rooms[n]
             s == SortByCapacityDesc(SubSeq(rooms, 1, n - 1))
             p == Cardinality({i \in 1..Len(s) : s[i].ExamCapacity >= r.ExamCapacity})
         IN  SubSeq(s, 1, p) \o <<r>> \o SubSeq(s, p + 1, Len(s))

\* lines 100-104: dict comprehension over session_courses, as its items()
\* (a repeated code keeps its first position)
RECURSIVE Dedup(_)
Dedup(s) ==
    IF s = <<>> THEN <<>>
    ELSE LET front == Dedup(SubSeq(s, 1, Len(s) - 1))
             x == s[Len(s)]
         IN  IF x \in Range(front) THEN front ELSE Append(front, x)

CourseStudentCounts(session_courses, enrollment) ==
    LET codes == Dedup(session_courses)
    IN  [i \in 1..Len(codes) |->
            [course |-> codes[i],
             count  |-> IF codes[i] \in DOMAIN enrollment
                        THEN enrollment[codes[i]] ELSE 0]]

\* the dict walked as it was built: the courses in their listed order
SortedByCountDesc_listed(items) == items

\* sorted(items, key=count, reverse=True) (line 105): stable, descending
RECURSIVE SortedByCountDesc(_)
SortedByCountDesc(items) ==
    IF items = <<>> THEN <<>>
    ELSE LET n == Len(items)
             x == items[n]
             s == SortedByCountDesc(SubSeq(items, 1, n - 1))
             p == Cardinality({i \in 1..Len(s) : s[i].count >= x.count})
         IN  SubSeq(s, 1, p) \o <<x>> \o SubSeq(s, p + 1, Len(s))

\* the allocation not capped by the room: every pending student goes in
AllocationCount_uncapped(capacity, remaining) == remaining

\* line 118 / 128
AllocationCount(capacity, remaining) == Min(capacity, remaining)

\* the roster left as it was: the seated students are not popped
Left_unpopped(roster, n) == roster

\* lines 141-142: the two slices of the roster
Taken(roster, n) == SubSeq(roster, 1, Min(n, Len(roster)))
Left(roster, n) == SubSeq(roster, Min(n, Len(roster)) + 1, Len(roster))

\* ---------------------------------------------------------------- inputs
\* ip_1: the i-th student of X, then the i-th student of Y, for i = 1, 2, ...
RECURSIVE Records(_, _, _)
Records(nx, ny, i) ==
    IF i > Max(nx, ny) THEN <<>>
    ELSE (IF i <= nx THEN <<[course_code |-> "X", rollno |-> RollTable.X[i]]>> ELSE <<>>)
         \o (IF i <= ny THEN <<[course_code |-> "Y", rollno |-> RollTable.Y[i]]>> ELSE <<>>)
         \o Records(nx, ny, i + 1)

Cells == {NaN,
          [isna |-> FALSE, text |-> <<"X">>],
          [isna |-> FALSE, text |-> <<"Y">>],
          [isna |-> FALSE, text |-> <<"X", SEP, "Y">>]}

\* raw 'Exam Capacity' values of the catalog: the smallest and the largest
Capacities == {1, MaxCap}

\* ip_3: one row per room number, listed by descending room number
Catalogs ==
    {[i \in 1..Cardinality(RoomNos) |->
        [Block |-> b[Cardinality(RoomNos) + 1 - i], RoomNo |-> Cardinality(RoomNos) + 1 - i,
         ExamCapacity |-> c[Cardinality(RoomNos) + 1 - i]]] :
        b \in [RoomNos -> Blocks], c \in [RoomNos -> Capacities]}

CodesIn(cell) == IF cell.isna THEN {} ELSE Range(Split(cell.text))

\* ip_2: one or two dates; no course sits twice on one date
ScheduleRows ==
    {rw \in Cells \X Cells : CodesIn(rw[1]) \cap CodesIn(rw[2]) = {}}

Schedules == [{1} -> ScheduleRows] \cup [{1, 2} -> ScheduleRows]

\* ---------------------------------------------------------------- main()
Idle ==
    /\ sorted_courses = <<>> /\ allocation_plan = <<>> /\ ci = 1
    /\ assigned_rooms = <<>> /\ remaining_students = 0 /\ ri = 1 /\ ai = 1

Init ==
    /\ \E typed \in TypedModes : arrangement_mode = DefaultMode(typed)
    /\ seat_margin \in Margins
    /\ \E nx \in {1, MaxEnroll}, ny \in {0, 1, MaxEnroll} :
         student_records = Records(nx, ny, 1)
    /\ \E s \in Schedules :
         schedule_details = [r \in DOMAIN s |->
             [Date |-> r, Morning |-> s[r][1], Evening |-> s[r][2]]]
    /\ room_details \in Catalogs
    /\ course_enrollment = GroupCount(student_records)
    /\ course_to_students = GroupRolls(student_records)
    /\ block_9_rooms = SortByRoomNo(InBlock(room_details, "9"))
    /\ lt_block_rooms = SortByCapacityDesc(InBlock(room_details, "LT"))
    /\ seating_plan = <<>>
    /\ row = 1 /\ sess = 1 /\ pc = "session"
    /\ Idle
    /\ room_size = 0 /\ max_capacity = None /\ call = "none"

session_info == schedule_details[row]
session == Sessions[sess]
Cell == session_info[session]

\* the next (row, session) of the nested loops at lines 93 and 95
Advance ==
    /\ pc' = "session"
    /\ IF sess < Len(Sessions)
       THEN sess' = sess + 1 /\ row' = row
       ELSE sess' = 1 /\ row' = row + 1

\* a blank cell that starts the plan afresh
SkipSession_resetsPlan ==
    /\ pc = "session" /\ row <= Len(schedule_details)
    /\ Cell.isna
    /\ Advance
    /\ seating_plan' = <<>>
    /\ UNCHANGED <<inputs, course_to_students, locals, capcall>>

\* lines 96-97
SkipSession ==
    /\ pc = "session" /\ row <= Len(schedule_details)
    /\ Cell.isna
    /\ Advance
    /\ UNCHANGED <<inputs, course_to_students, seating_plan, locals, capcall>>

\* line 105 with an unstable sort: courses of equal count in either order
StartSession_tiesAnyOrder ==
    /\ pc = "session" /\ row <= Len(schedule_details)
    /\ ~Cell.isna
    /\ \E swap \in BOOLEAN, course_student_counts \in
            {CourseStudentCounts(Split(Cell.text), course_enrollment)} :
         LET s == SortedByCountDesc(course_student_counts)
         IN  sorted_courses' =
                IF swap /\ Len(s) = 2 /\ s[1].count = s[2].count
                THEN <<s[2], s[1]>> ELSE s
    /\ allocation_plan' = <<>>
    /\ ci' = 1
    /\ pc' = "course"
    /\ UNCHANGED <<inputs, course_to_students, seating_plan, row, sess,
                   assigned_rooms, remaining_students, ri, ai, capcall>>

\* lines 99-107
StartSession ==
    /\ pc = "session" /\ row <= Len(schedule_details)
    /\ ~Cell.isna
    /\ \E course_student_counts \in
            {CourseStudentCounts(Split(Cell.text), course_enrollment)} :  \* the one dict
          sorted_courses' = SortedByCountDesc(course_student_counts)
    /\ allocation_plan' = <<>>
    /\ ci' = 1
    /\ pc' = "course"
    /\ UNCHANGED <<inputs, course_to_students, seating_plan, row, sess,
                   assigned_rooms, remaining_students, ri, ai, capcall>>

\* lines 108-110
NextCourse ==
    /\ pc = "course" /\ ci <= Len(sorted_courses)
    /\ assigned_rooms' = <<>>
    /\ remaining_students' = sorted_courses[ci].count
    /\ ri' = 1
    /\ pc' = "block9"
    /\ UNCHANGED <<inputs, course_to_students, seating_plan, row, sess,
                   sorted_courses, allocation_plan, ci, ai, capcall>>

\* lines 116-120 and 126-130: one room of a pool
AssignRoom(room_info) ==
    LET room_capacity == room_info.ExamCapacity
        capacity == compute_max_capacity(room_capacity, arrangement_mode, seat_margin)
        allocation_count == AllocationCount(capacity, remaining_students)
    IN  /\ room_size' = room_capacity
        /\ max_capacity' = capacity
        /\ call' = CallOutcome(room_capacity, arrangement_mode, seat_margin)
        /\ remaining_students' = remaining_students - allocation_count
        /\ assigned_rooms' = Append(assigned_rooms,
               [course_code |-> sorted_courses[ci].course,
                room |-> room_info.RoomNo, allocated |-> allocation_count])
        /\ ri' = ri + 1

\* lines 113-120
AssignBlock9Room ==
    /\ pc = "block9" /\ ri <= Len(block_9_rooms) /\ remaining_students > 0
    /\ AssignRoom(block_9_rooms[ri])
    /\ UNCHANGED <<inputs, course_to_students, seating_plan, row, sess, pc,
                   sorted_courses, allocation_plan, ci, ai>>

\* the LT loop never entered: the course is closed after Block 9
LeaveBlock9_skipLT ==
    /\ pc = "block9" /\ (ri > Len(block_9_rooms) \/ remaining_students <= 0)
    /\ ri' = Len(lt_block_rooms) + 1
    /\ pc' = "lt"
    /\ UNCHANGED <<inputs, course_to_students, seating_plan, row, sess,
                   sorted_courses, allocation_plan, ci, assigned_rooms,
                   remaining_students, ai, capcall>>

\* lines 113-115: the loop over Block 9 ends or breaks
LeaveBlock9 ==
    /\ pc = "block9" /\ (ri > Len(block_9_rooms) \/ remaining_students <= 0)
    /\ ri' = 1
    /\ pc' = "lt"
    /\ UNCHANGED <<inputs, course_to_students, seating_plan, row, sess,
                   sorted_courses, allocation_plan, ci, assigned_rooms,
                   remaining_students, ai, capcall>>

\* lines 123-130
AssignLTRoom ==
    /\ pc = "lt" /\ ri <= Len(lt_block_rooms) /\ remaining_students > 0
    /\ AssignRoom(lt_block_rooms[ri])
    /\ UNCHANGED <<inputs, course_to_students, seating_plan, row, sess, pc,
                   sorted_courses, allocation_plan, ci, ai>>

\* lines 123-125 and 132: the loop over LT ends or breaks; extend the plan
LeaveLT ==
    /\ pc = "lt" /\ (ri > Len(lt_block_rooms) \/ remaining_students <= 0)
    /\ allocation_plan' = allocation_plan \o assigned_rooms
    /\ ci' = ci + 1
    /\ pc' = "course"
    /\ UNCHANGED <<inputs, course_to_students, seating_plan, row, sess,
                   sorted_courses, assigned_rooms, remaining_students, ri, ai, capcall>>

\* line 108 exhausted, line 135 begins
EndCourses ==
    /\ pc = "course" /\ ci > Len(sorted_courses)
    /\ ai' = 1
    /\ pc' = "update"
    /\ UNCHANGED <<inputs, course_to_students, seating_plan, row, sess,
                   sorted_courses, allocation_plan, ci, assigned_rooms,
                   remaining_students, ri, capcall>>

\* lines 146-153: the row appended to seating_plan
PlanRow(exam_date, sname, course_id, room_id, allocated_count, allocated_students) ==
    [Date |-> exam_date, Session |-> sname, Course_Code |-> course_id, Room |-> room_id,
     Allocated_Students |-> allocated_count, Students |-> Join(allocated_students)]

\* lines 135-153: one allocation of the plan
UpdateSeatingPlan ==
    /\ pc = "update" /\ ai <= Len(allocation_plan)
    /\ LET allocation == allocation_plan[ai]
           course_id == allocation.course_code
           room_id == allocation.room
           allocated_count == allocation.allocated
       IN  IF course_id \in DOMAIN course_to_students
           THEN LET allocated_students == Taken(course_to_students[course_id], allocated_count)
                IN  /\ course_to_students' =
                          [course_to_students EXCEPT
                              ![course_id] = Left(course_to_students[course_id], allocated_count)]
                    /\ seating_plan' = Append(seating_plan,
                          PlanRow(session_info.Date, session, course_id, room_id,
                                  allocated_count, allocated_students))
           ELSE UNCHANGED <<course_to_students, seating_plan>>
    /\ ai' = ai + 1
    /\ UNCHANGED <<inputs, row, sess, pc, sorted_courses, allocation_plan, ci,
                   assigned_rooms, remaining_students, ri, capcall>>

\* line 135 exhausted: on to the next session
EndUpdate ==
    /\ pc = "update" /\ ai > Len(allocation_plan)
    /\ Advance
    /\ UNCHANGED <<inputs, course_to_students, seating_plan, locals, capcall>>

\* line 93 exhausted: the plan is complete (line 156)
Finish ==
    /\ pc = "session" /\ row > Len(schedule_details)
    /\ pc' = "done"
    /\ UNCHANGED <<inputs, course_to_students, seating_plan, row, sess, locals, capcall>>

Next ==
    \/ SkipSession
    \/ StartSession
    \/ NextCourse
    \/ AssignBlock9Room
    \/ LeaveBlock9
    \/ AssignLTRoom
    \/ LeaveLT
    \/ EndCourses
    \/ UpdateSeatingPlan
    \/ EndUpdate
    \/ Finish

Spec == Init /\ [][Next]_vars

\* ------------------------------------------- compute_max_capacity alone
\* One call of compute_max_capacity (lines 7-14) with arguments of its own,
\* outside main(): the mode is not defaulted by lines 66-68.
InitCap ==
    /\ arrangement_mode \in TypedModes
    /\ seat_margin \in CapMargins
    /\ room_size \in 0..MaxSize
    /\ max_capacity = None /\ call = "pending"
    /\ student_records = <<>> /\ schedule_details = <<>> /\ room_details = <<>>
    /\ course_enrollment = <<>> /\ course_to_students = <<>>
    /\ block_9_rooms = <<>> /\ lt_block_rooms = <<>> /\ seating_plan = <<>>
    /\ row = 1 /\ sess = 1 /\ pc = "call"
    /\ Idle

CallCapacity ==
    /\ pc = "call" /\ call = "pending"
    /\ max_capacity' = compute_max_capacity(room_size, arrangement_mode, seat_margin)
    /\ call' = CallOutcome(room_size, arrangement_mode, seat_margin)
    /\ UNCHANGED <<inputs, course_to_students, seating_plan, row, sess, pc, locals, room_size>>

NextCap == CallCapacity

SpecCap == InitCap /\ [][NextCap]_vars

\* ================================================================ claims
\* ---------------------------------------------------------------- C8
\* C8: for every room size s >= 0 and every margin m, a returned
\* compute_max_capacity(s, 'dense', m) is the larger of 0 and s - m, and a
\* returned compute_max_capacity(s, 'sparse', m) is the larger of 1 and
\* q - m, where q is the half of s rounded down (2q <= s < 2q + 2); so the
\* sparse result is at least 1 and the dense result is at least 0.
IsLargerOf(v, a, b) == v >= a /\ v >= b /\ v \in {a, b}

C8_CapacityFormula ==
    (call = "returned" /\ arrangement_mode \in Modes) =>
        /\ arrangement_mode = "dense" =>
              /\ IsLargerOf(max_capacity, 0, room_size - seat_margin)
              /\ max_capacity >= 0
        /\ arrangement_mode = "sparse" =>
              /\ \E q \in 0..room_size :
                    /\ 2 * q <= room_size /\ room_size < 2 * q + 2
                    /\ IsLargerOf(max_capacity, 1, q - seat_margin)
              /\ max_capacity >= 1

\* the sparse floor: size 3, margin 1 gives 1, not 0
C8_Witness ==
    /\ pc = "call" /\ call = "returned"
    /\ arrangement_mode = "sparse" /\ room_size = 3 /\ seat_margin = 1
    /\ max_capacity = 1

\* ---------------------------------------------------------------- C9
\* C9: a call of compute_max_capacity with a mode that is neither 'dense'
\* nor 'sparse' ends by raising (InvalidModeError) and returns nothing.
C9_InvalidModeRaises ==
    (pc = "call" /\ call # "pending" /\ arrangement_mode \notin Modes) => call = "raised"

\* ------------------------------------------------- reading the seating plan
PlanIdx == 1..Len(seating_plan)
Dates == {schedule_details[r].Date : r \in 1..Len(schedule_details)}
SessionNames == Range(Sessions)

\* the seated counts of a sequence of plan rows, summed
Seats(rows) == SumSeq([i \in 1..Len(rows) |-> rows[i].Allocated_Students])

\* the roll numbers written in a 'Students' string
RollsIn(text) == SelectSeq(text, LAMBDA t : t # SEP)

\* the catalog row of a room number, and what compute_max_capacity makes of it
RoomOf(no) == CHOOSE r \in Range(room_details) : r.RoomNo = no
UsableCapacity(no) ==
    compute_max_capacity(RoomOf(no).ExamCapacity, arrangement_mode, seat_margin)

InSession(d, s) == SelectSeq(seating_plan, LAMBDA a : a.Date = d /\ a.Session = s)
InSessionRoom(d, s, no) == SelectSeq(InSession(d, s), LAMBDA a : a.Room = no)
InRoom(no) == SelectSeq(seating_plan, LAMBDA a : a.Room = no)
OfCourse(c) == SelectSeq(seating_plan, LAMBDA a : a.Course_Code = c)
OriginalRoster(c) == GroupRolls(student_records)[c]

\* ---------------------------------------------------------------- C1
\* C1: within one (date, session), the seated counts of all Assignments
\* that name a room sum to at most the room's usable capacity
\* compute_max_capacity(raw capacity, mode, margin).
C1_RoomNeverOverfilled ==
    \A d \in Dates, s \in SessionNames, no \in RoomNos :
        Seats(InSessionRoom(d, s, no)) <= UsableCapacity(no)

C3_SeatedWithinEnrollment ==
    \A c \in DOMAIN course_enrollment : Seats(OfCourse(c)) <= course_enrollment[c]

\* ---------------------------------------------------------------- C4
\* C4: for every course, the identifier lists of its Assignments, joined in
\* emission order, followed by its remaining roster, are its original
\* roster: the seated students are a prefix, the remaining ones the suffix.
SeatedSoFar(c) ==
    LET rows == OfCourse(c)
    IN  Flatten([i \in 1..Len(rows) |-> RollsIn(rows[i].Students)])

C4_SeatedIsRosterPrefix ==
    \A c \in DOMAIN course_to_students :
        SeatedSoFar(c) \o course_to_students[c] = OriginalRoster(c)

\* a course seated over two Assignments, each with students
C4_Witness ==
    \E i, j \in PlanIdx :
        /\ i < j
        /\ seating_plan[i].Course_Code = seating_plan[j].Course_Code
        /\ seating_plan[i].Students # <<>>
        /\ seating_plan[j].Students # <<>>

\* ---------------------------------------------------------------- C10
\* C10: every Assignment of the seating plan has a seated count of at
\* least 1; an allocation of zero seats produces no Assignment.
C10_EveryAssignmentSeatsSomeone ==
    \A i \in PlanIdx : seating_plan[i].Allocated_Students >= 1

\* ---------------------------------------------------------------- C5
\* C5: the rooms given to one course in one session come in pool order:
\* primary (Block 9) rooms by ascending room number, then overflow (LT)
\* rooms by descending raw capacity; no overflow room comes before a primary
\* room, and an overflow room comes only after every primary room of the
\* catalog has been offered to the course.
PrimaryRoomNos == {r.RoomNo : r \in {q \in Range(room_details) : q.Block = "9"}}

InPoolOrder(nos) ==
    /\ \A i, j \in 1..Len(nos) :
          i < j =>
            /\ RoomOf(nos[i]).Block = "LT" => RoomOf(nos[j]).Block = "LT"
            /\ (RoomOf(nos[i]).Block = "9" /\ RoomOf(nos[j]).Block = "9")
                  => nos[i] < nos[j]
            /\ (RoomOf(nos[i]).Block = "LT" /\ RoomOf(nos[j]).Block = "LT")
                  => RoomOf(nos[i]).ExamCapacity >= RoomOf(nos[j]).ExamCapacity
    /\ \A j \in 1..Len(nos) :
          RoomOf(nos[j]).Block = "LT" => PrimaryRoomNos \subseteq {nos[i] : i \in 1..j}

RoomsOfCourse(d, s, c) ==
    LET rows == SelectSeq(seating_plan,
                    LAMBDA a : a.Date = d /\ a.Session = s /\ a.Course_Code = c)
    IN  [i \in 1..Len(rows) |-> rows[i].Room]

C5_PrimaryBeforeOverflow ==
    /\ \A a \in Range(seating_plan) :
          InPoolOrder(RoomsOfCourse(a.Date, a.Session, a.Course_Code))
    /\ InPoolOrder([i \in 1..Len(assigned_rooms) |-> assigned_rooms[i].room])

\* a course seated in a primary room and then in an overflow room
C5_Witness ==
    \E i, j \in PlanIdx :
        /\ i < j
        /\ seating_plan[i].Date = seating_plan[j].Date
        /\ seating_plan[i].Session = seating_plan[j].Session
        /\ seating_plan[i].Course_Code = seating_plan[j].Course_Code
        /\ RoomOf(seating_plan[i].Room).Block = "9"
        /\ RoomOf(seating_plan[j].Room).Block = "LT"

\* ---------------------------------------------------------------- C6
\* C6: within a session the courses are allocated by descending student
\* count, equal counts in their listed order, and a course gets of a room
\* only what the courses before it in the session have left of it.
EnrolledCount(c) == IF c \in DOMAIN course_enrollment THEN course_enrollment[c] ELSE 0

Position(seq, x) == CHOOSE i \in 1..Len(seq) : seq[i] = x

C6_DescendingCountOrder ==
    /\ \A i, j \in 1..Len(sorted_courses) :
          i < j =>
            /\ sorted_courses[i].count >= sorted_courses[j].count
            /\ sorted_courses[i].count = EnrolledCount(sorted_courses[i].course)
            /\ (pc \in {"course", "block9", "lt", "update"}
                  /\ sorted_courses[i].count = sorted_courses[j].count)
                  => Position(Split(Cell.text), sorted_courses[i].course)
                       < Position(Split(Cell.text), sorted_courses[j].course)
    /\ \A i, j \in PlanIdx :
          (/\ i < j
           /\ seating_plan[i].Date = seating_plan[j].Date
           /\ seating_plan[i].Session = seating_plan[j].Session)
          => EnrolledCount(seating_plan[i].Course_Code)
                >= EnrolledCount(seating_plan[j].Course_Code)

C6_SmallerCourseGetsTheRest ==
    \A j \in PlanIdx :
        LET a == seating_plan[j]
            before == SelectSeq(SubSeq(seating_plan, 1, j - 1),
                        LAMBDA b : b.Date = a.Date /\ b.Session = a.Session /\ b.Room = a.Room)
        IN  a.Allocated_Students <= UsableCapacity(a.Room) - Seats(before)

C6_LargerCourseFirst == C6_DescendingCountOrder /\ C6_SmallerCourseGetsTheRest

\* ---------------------------------------------------------------- C7
\* C7: the allocation of one course is the first-fit walk of the pools:
\* primary then overflow, in pool order, each room giving the smaller of
\* its remaining capacity and the students still pending, no room being
\* pulled once nothing is pending.
RECURSIVE FirstFit(_, _, _, _)
FirstFit(course, rooms, remaining, pending) ==
    IF rooms = <<>> \/ pending <= 0 THEN <<>>
    ELSE LET no == Head(rooms).RoomNo
             n == Min(remaining[no], pending)
         IN  <<[course_code |-> course, room |-> no, allocated |-> n]>>
             \o FirstFit(course, Tail(rooms), remaining, pending - n)

\* what the courses allocated earlier in this session have left of a room
RemainingCapacity(no) ==
    LET taken == SelectSeq(allocation_plan, LAMBDA a : a.room = no)
    IN  UsableCapacity(no) - SumSeq([i \in 1..Len(taken) |-> taken[i].allocated])

CourseAllocated ==
    pc = "lt" /\ (ri > Len(lt_block_rooms) \/ remaining_students <= 0)

C7_FirstFitReference ==
    CourseAllocated =>
        assigned_rooms =
            FirstFit(sorted_courses[ci].course, block_9_rooms \o lt_block_rooms,
                     [no \in RoomNos |-> RemainingCapacity(no)], sorted_courses[ci].count)

\* ---------------------------------------------------------------- C11
\* C11: the pass is deterministic.  The first state is fixed by the inputs
\* (enrollment, schedule, catalog, margin, mode), and from every reachable
\* state the step that is taken is the only step that can be taken; so two
\* runs started from identical inputs and stepped side by side are in the
\* same state at every position: same seating plan, row for row, and same
\* rosters.
C11_Deterministic ==
    [][\A v \in {vars'} : ~ENABLED (Next /\ vars' # v)]_vars

\* a finished run in which two courses of equal count sat in one session
C11_Witness ==
    /\ pc = "done"
    /\ \E i, j \in PlanIdx :
          /\ i < j
          /\ seating_plan[i].Date = seating_plan[j].Date
          /\ seating_plan[i].Session = seating_plan[j].Session
          /\ seating_plan[i].Course_Code # seating_plan[j].Course_Code
          /\ EnrolledCount(seating_plan[i].Course_Code)
                = EnrolledCount(seating_plan[j].Course_Code)

\* ---------------------------------------------------------------- C12
\* C12: when the students of a course still unseated at the start of a
\* session are more than the usable seats of both pools together, the
\* course is given every room up to the last overflow room and no error is
\* raised: its Assignments of the session seat exactly the usable seats of
\* the pools, exactly (pending - seated) students stay in its roster, and
\* the batch goes on until it is done.
Rows(rows) == SumSeq([i \in 1..Len(rows) |-> Len(RollsIn(rows[i].Students))])

PoolCapacity ==
    LET pools == block_9_rooms \o lt_block_rooms
    IN  SumSeq([i \in 1..Len(pools) |->
            compute_max_capacity(pools[i].ExamCapacity, arrangement_mode, seat_margin)])

ThisSession(c) ==
    SelectSeq(seating_plan, LAMBDA a : /\ a.Course_Code = c
                                       /\ a.Date = session_info.Date
                                       /\ a.Session = session)
EarlierSessions(c) ==
    SelectSeq(seating_plan, LAMBDA a : /\ a.Course_Code = c
                                       /\ ~(a.Date = session_info.Date /\ a.Session = session))

\* the students of c not yet seated when the current session began
PendingAtStart(c) == Len(OriginalRoster(c)) - Rows(EarlierSessions(c))

SessionUpdated == pc = "update" /\ ai > Len(allocation_plan)

ShortOfSeats(c) ==
    /\ SessionUpdated
    /\ c \in {sorted_courses[i].course : i \in 1..Len(sorted_courses)}
    /\ c \in DOMAIN course_to_students
    /\ PendingAtStart(c) > PoolCapacity

C12_ShortfallSeated ==
    /\ call # "raised"
    /\ (pc = "lt" /\ CourseAllocated /\ remaining_students > 0)
          => Len(assigned_rooms) = Len(block_9_rooms) + Len(lt_block_rooms)
    /\ \A c \in DOMAIN course_to_students :
          ShortOfSeats(c) =>
            /\ Seats(ThisSession(c)) = PoolCapacity
            /\ Rows(ThisSession(c)) = PoolCapacity
            /\ Len(course_to_students[c]) = PendingAtStart(c) - Seats(ThisSession(c))

\* where main() stands, as a tuple that every step makes larger
Progress ==
    CASE pc = "session" -> <<0, row, sess, 0, 0, 0, 0>>
      [] pc = "course"  -> <<0, row, sess, 1, ci, 0, 0>>
      [] pc = "block9"  -> <<0, row, sess, 1, ci, 1, ri>>
      [] pc = "lt"      -> <<0, row, sess, 1, ci, 2, ri>>
      [] pc = "update"  -> <<0, row, sess, 2, 0, 0, ai>>
      [] pc = "done"    -> <<1, row, sess, 0, 0, 0, 0>>

LexLess(a, b) ==
    \E k \in 1..Len(a) : a[k] < b[k] /\ \A j \in 1..(k - 1) : a[j] = b[j]

\* no loop of main() runs past the end of what it iterates
LoopsBounded ==
    /\ row <= Len(schedule_details) + 1 /\ sess <= Len(Sessions)
    /\ ci <= Len(sorted_courses) + 1
    /\ ri <= Max(Len(block_9_rooms), Len(lt_block_rooms)) + 1
    /\ pc = "update" => ai <= Len(allocation_plan) + 1

\* the batch is done or can take its next step
NotStuck == pc = "done" \/ ENABLED Next

C12_SilentUnderAllocation ==
    /\ [](C12_ShortfallSeated /\ LoopsBounded /\ NotStuck)
    /\ [][LexLess(Progress, Progress')]_vars

\* a finished run that seated part of a course and left the rest unseated
C12_Witness ==
    /\ pc = "done"
    /\ \E c \in DOMAIN course_to_students :
          /\ course_to_students[c] # <<>>
          /\ Rows(OfCourse(c)) > 0

\* ---------------------------------------------------------------- C13
\* C13: if the enrollment counts of all the courses that the schedule names
\* sum to at most the usable seats of both pools together, then in the
\* finished batch the roster of every scheduled course is empty and the
\* seated counts of its Assignments sum to exactly its enrollment count.
ScheduledIn(r) == UNION {CodesIn(schedule_details[r][s]) : s \in SessionNames}
ScheduledCourses == UNION {ScheduledIn(r) : r \in 1..Len(schedule_details)}

RECURSIVE TotalEnrollment(_)
TotalEnrollment(courses) ==
    IF courses = {} THEN 0
    ELSE LET c == CHOOSE x \in courses : TRUE
         IN  EnrolledCount(c) + TotalEnrollment(courses \ {c})

EnoughSeats == TotalEnrollment(ScheduledCourses) <= PoolCapacity

AllSeatedOnce(c) ==
    /\ c \in DOMAIN course_to_students => course_to_students[c] = <<>>
    /\ Seats(OfCourse(c)) = EnrolledCount(c)

C13_EveryStudentSeatedOnce ==
    (pc = "done" /\ EnoughSeats) => \A c \in ScheduledCourses : AllSeatedOnce(c)

\* the same for the batches in which no course sits on two dates
SatOnce == \A r1, r2 \in 1..Len(schedule_details) :
              r1 # r2 => ScheduledIn(r1) \cap ScheduledIn(r2) = {}

C13_SeatedOnceIfScheduledOnce ==
    (pc = "done" /\ EnoughSeats /\ SatOnce) =>
        \A c \in ScheduledCourses : AllSeatedOnce(c)

\* ---------------------------------------------------------------- C14
\* C14: the seating plan is emitted in nested order.  Of two Assignments
\* the earlier one never belongs to a later schedule row, nor to Evening
\* when the later one is of Morning of the same row; within one session
\* the Assignments of a course are consecutive and the courses come by
\* descending count; within one course the rooms come in pool order; and
\* no Assignment belongs to a session whose schedule cell is blank.
RowOf(date) == CHOOSE r \in 1..Len(schedule_details) : schedule_details[r].Date = date
Slot(a) == <<RowOf(a.Date), Position(Sessions, a.Session)>>
CellOf(a) == schedule_details[RowOf(a.Date)][a.Session]

C14_NestedEmissionOrder ==
    /\ \A i, j \in PlanIdx :
          LET a == seating_plan[i]
              b == seating_plan[j]
          IN  i < j =>
                /\ ~LexLess(Slot(b), Slot(a))
                /\ Slot(a) = Slot(b) =>
                      /\ EnrolledCount(a.Course_Code) >= EnrolledCount(b.Course_Code)
                      /\ a.Course_Code = b.Course_Code =>
                            \A k \in i..j : seating_plan[k].Course_Code = a.Course_Code
    /\ \A a \in Range(seating_plan) :
          /\ InPoolOrder(RoomsOfCourse(a.Date, a.Session, a.Course_Code))
          /\ ~CellOf(a).isna
          /\ a.Course_Code \in CodesIn(CellOf(a))

\* a finished batch with a blank cell, Assignments of both sessions of one
\* row and of two rows, and a session of two courses of different counts
C14_Witness ==
    /\ pc = "done"
    /\ \E r \in 1..Len(schedule_details), s \in SessionNames : schedule_details[r][s].isna
    /\ \E i, j \in PlanIdx :
          /\ i < j
          /\ Slot(seating_plan[i])[1] = Slot(seating_plan[j])[1]
          /\ Slot(seating_plan[i])[2] < Slot(seating_plan[j])[2]
    /\ \E i, j \in PlanIdx : Slot(seating_plan[i])[1] < Slot(seating_plan[j])[1]
    /\ \E i, j \in PlanIdx :
          /\ i < j
          /\ Slot(seating_plan[i]) = Slot(seating_plan[j])
          /\ EnrolledCount(seating_plan[i].Course_Code)
                > EnrolledCount(seating_plan[j].Course_Code)
          /\ Position(Split(CellOf(seating_plan[i]).text), seating_plan[i].Course_Code)
                > Position(Split(CellOf(seating_plan[i]).text), seating_plan[j].Course_Code)

\* ---------------------------------------------------------------- C15
\* C15: in every Assignment the recorded seated count is the number of
\* student identifiers of its 'Students' list, also for a course that sits
\* in more than one session.
C15_CountIsNumberOfIdentifiers ==
    \A i \in PlanIdx :
        seating_plan[i].Allocated_Students = Len(RollsIn(seating_plan[i].Students))

\* ---------------------------------------------------------------- C16
\* C16: every step taken while a (date, session) is processed leaves the
\* roster of every course that is not active in that session as it was and
\* keeps every Assignment emitted so far, in place, the seating plan
\* changing only by rows appended at its end; the step that skips a blank
\* cell changes no roster, no room capacity and no Assignment.
RostersOutsideSessionKept ==
    /\ DOMAIN course_to_students' = DOMAIN course_to_students
    /\ \A c \in DOMAIN course_to_students :
          course_to_students'[c] # course_to_students[c] =>
              /\ row <= Len(schedule_details)
              /\ c \in CodesIn(Cell)

PlanOnlyAppended ==
    /\ Len(seating_plan') >= Len(seating_plan)
    /\ SubSeq(seating_plan', 1, Len(seating_plan)) = seating_plan

SkipChangesNothing ==
    (pc = "session" /\ row <= Len(schedule_details) /\ Cell.isna) =>
        UNCHANGED <<course_to_students, seating_plan,
                    room_details, block_9_rooms, lt_block_rooms>>

C16_SessionFrame ==
    [][RostersOutsideSessionKept /\ PlanOnlyAppended /\ SkipChangesNothing]_vars

\* a session of the second date just written to the plan: Assignments of
\* the first date stand before its own, a course that does not sit in it
\* still has its roster, and a blank cell was passed on the way
C16_Witness ==
    /\ SessionUpdated
    /\ row > 1
    /\ \E s \in SessionNames : schedule_details[1][s].isna
    /\ \E i, j \in PlanIdx :
          /\ Slot(seating_plan[i])[1] < row
          /\ Slot(seating_plan[j]) = <<row, sess>>
          /\ seating_plan[j].Students # <<>>
    /\ \E c \in DOMAIN course_to_students :
          /\ c \notin CodesIn(Cell)
          /\ course_to_students[c] # <<>>

====
